---- MODULE Spec2Model ----
(***************************************************************************)
(* Time Zone Meeting Planner (marcel_streamlit.py).                        *)
(*                                                                         *)
(* Python strings are TLA+ strings (Len, SubSeq and \o work on them).      *)
(* A DataFrame is a record [columns, rows]; pd.DataFrame() has no columns. *)
(* A call's outcome is a record [kind, value, exc, msg]: kind "return"     *)
(* carries value, kind "raise" carries the exception class and message.    *)
(* Instants are minutes counted from 00:00 UTC of the reference date.      *)
(***************************************************************************)
EXTENDS Integers, Sequences, FiniteSets, TLC

VARIABLES
    csv_file,        \* countries_data.csv on disk: Missing or a table
    pc,              \* "start" before line 28 has run, "ready" after it
    countries_data,  \* the module-level DataFrame (line 28)
    load_error,      \* TRUE once st.error was shown by load_country_data
    call,            \* the last operation run and its arguments
    ret              \* its outcome

vars == <<csv_file, pc, countries_data, load_error, call, ret>>

-----------------------------------------------------------------------------
(* Bounds of the model *)

MaxRows == 2
MaxQueryLen == 2
NumHours == 4
NumDates == 3

-----------------------------------------------------------------------------
(* Outcomes *)

\* The dict find_best_talk_time returns (lines 113-123), and the local
\* variables it was computed from
NoDict == [status |-> "", country1_time |-> "", country2_time |-> "",
           utc_time |-> "", message |-> ""]

NoLocals == [timezone1 |-> "", timezone2 |-> "",
             wake_start1_utc |-> 0, wake_end1_utc |-> 0,
             wake_start2_utc |-> 0, wake_end2_utc |-> 0,
             overlap_start |-> 0, overlap_end |-> 0]

Return(v) == [kind |-> "return", value |-> v, exc |-> "", msg |-> "",
              result |-> NoDict, locals |-> NoLocals]

ReturnDict(d, l) == [kind |-> "return", value |-> "", exc |-> "", msg |-> "",
                     result |-> d, locals |-> l]

Raise(e, m) == [kind |-> "raise", value |-> "", exc |-> e, msg |-> m,
                result |-> NoDict, locals |-> NoLocals]

NoCall == [fn |-> "none", country1 |-> "", country2 |-> "",
           wake_hours1 |-> <<0, 0>>, wake_hours2 |-> <<0, 0>>, now |-> ""]

NoResult == [kind |-> "none", value |-> "", exc |-> "", msg |-> "",
             result |-> NoDict, locals |-> NoLocals]

-----------------------------------------------------------------------------
(* A Python assignment "v = value" followed by the rest of the function:   *)
(* the value is computed once, then the rest runs with v bound to it.      *)

Assign(value, Rest(_)) == CHOOSE r \in {Rest(v) : v \in {value}} : TRUE

-----------------------------------------------------------------------------
(* Strings *)

CharAt(s, i) == SubSeq(s, i, i)

startswith(s, prefix) ==
    /\ Len(prefix) <= Len(s)
    /\ SubSeq(s, 1, Len(prefix)) = prefix

\* str.lower() on the letters the model's names and queries use
Lower(c) ==
    CASE c = "A" -> "a" [] c = "C" -> "c" [] c = "D" -> "d" [] c = "F" -> "f"
      [] c = "I" -> "i" [] c = "J" -> "j" [] c = "N" -> "n" [] c = "P" -> "p"
      [] c = "R" -> "r" [] c = "S" -> "s" [] c = "U" -> "u"
      [] OTHER -> c

Digits == {"0", "1", "2", "3", "4", "5", "6", "7", "8", "9"}

-----------------------------------------------------------------------------
(* The regular expression str.contains compiles from the query (regex=True *)
(* is the pandas default; case=False adds re.IGNORECASE).  The model       *)
(* covers patterns made of ordinary characters, ".", "(" and "\".          *)

ReError == [ok |-> FALSE, atoms |-> <<>>]

Compiled(atoms) == [ok |-> TRUE, atoms |-> atoms]

\* The atom an escape sequence "\e" stands for; t = "error" for a bad escape.
EscapeAtom(e) ==
    CASE e = "d" -> [t |-> "digit", c |-> ""]
      [] e = "D" -> [t |-> "nondigit", c |-> ""]
      [] e = "f" -> [t |-> "lit", c |-> "<FF>"]
      [] e = "r" -> [t |-> "lit", c |-> "<CR>"]
      [] e \in {".", "\\", "("} -> [t |-> "lit", c |-> e]
      [] OTHER -> [t |-> "error", c |-> ""]

RECURSIVE re_compile(_)
\* re.compile(pat, re.IGNORECASE): the atoms of the pattern, or ReError.
re_compile(pat) ==
    IF pat = "" THEN Compiled(<<>>)
    ELSE IF CharAt(pat, 1) = "(" THEN ReError   \* missing ), unterminated subpattern
    ELSE IF CharAt(pat, 1) = "\\" THEN
         IF Len(pat) = 1 THEN ReError           \* bad escape (end of pattern)
         ELSE Assign(EscapeAtom(CharAt(pat, 2)), LAMBDA a :
              IF a.t = "error" THEN ReError
              ELSE Assign(re_compile(SubSeq(pat, 3, Len(pat))), LAMBDA rest :
                   IF ~rest.ok THEN ReError ELSE Compiled(<<a>> \o rest.atoms)))
    ELSE Assign(re_compile(Tail(pat)), LAMBDA rest :
         IF ~rest.ok THEN ReError
         ELSE IF CharAt(pat, 1) = "." THEN Compiled(<<[t |-> "any", c |-> ""]>> \o rest.atoms)
         ELSE Compiled(<<[t |-> "lit", c |-> CharAt(pat, 1)]>> \o rest.atoms))

AtomMatches(a, x) ==
    CASE a.t = "lit" -> Lower(a.c) = Lower(x)
      [] a.t = "any" -> x # "<LF>"
      [] a.t = "digit" -> x \in Digits
      [] a.t = "nondigit" -> x \notin Digits

\* regex.search(s) is not None
re_search(atoms, s) ==
    \E i \in 0..(Len(s) - Len(atoms)) :
        \A k \in 1..Len(atoms) : AtomMatches(atoms[k], CharAt(s, i + k))

-----------------------------------------------------------------------------
(* The dataset *)

Missing == [columns |-> {"<missing>"}, rows |-> <<>>]

EmptyDataFrame == [columns |-> {}, rows |-> <<>>]

Table(rows) == [columns |-> {"name", "timezones"}, rows |-> rows]

Row(n, tz) == [name |-> n, timezones |-> tz]

\* pd.read_csv(file_path): raises when the file is missing
read_csv(file) ==
    IF file = Missing THEN Raise("FileNotFoundError", "countries_data.csv")
    ELSE Return(file)

\* load_country_data: the table and whether st.error was called
load_country_data(file) ==
    IF read_csv(file).kind = "raise"
    THEN [data |-> EmptyDataFrame, error |-> TRUE]
    ELSE [data |-> file, error |-> FALSE]

-----------------------------------------------------------------------------
(* get_timezone *)

utc_to_iana == <<
    <<"UTC+00:00", "UTC">>,
    <<"UTC+01:00", "Europe/Paris">>,
    <<"UTC+02:00", "Europe/Kiev">>,
    <<"UTC+03:00", "Europe/Moscow">>,
    <<"UTC+04:00", "Asia/Dubai">>,
    <<"UTC+05:00", "Asia/Karachi">>,
    <<"UTC+05:30", "Asia/Kolkata">>,
    <<"UTC+06:00", "Asia/Dhaka">>,
    <<"UTC+07:00", "Asia/Bangkok">>,
    <<"UTC+08:00", "Asia/Shanghai">>,
    <<"UTC+09:00", "Asia/Tokyo">>,
    <<"UTC+09:30", "Australia/Darwin">>,
    <<"UTC+10:00", "Australia/Sydney">>,
    <<"UTC+11:00", "Pacific/Noumea">>,
    <<"UTC+12:00", "Pacific/Auckland">>,
    <<"UTC-01:00", "Atlantic/Azores">>,
    <<"UTC-02:00", "America/Noronha">>,
    <<"UTC-03:00", "America/Sao_Paulo">>,
    <<"UTC-04:00", "America/New_York">>,
    <<"UTC-05:00", "America/Chicago">>,
    <<"UTC-06:00", "America/Denver">>,
    <<"UTC-07:00", "America/Phoenix">>,
    <<"UTC-08:00", "America/Los_Angeles">>,
    <<"UTC-09:00", "America/Anchorage">>,
    <<"UTC-10:00", "Pacific/Honolulu">>,
    <<"UTC-11:00", "Pacific/Midway">>,
    <<"UTC-12:00", "Pacific/Wake">> >>

\* Whether a table key selects the label (line 73)
KeyMatches(timezone, utc_offset) == startswith(timezone, utc_offset)

\* Mutant: an unmapped label falls back to UTC, as utc_to_iana.get(label, 'UTC')
LookupZone_default(timezone) ==
    Assign({i \in 1..Len(utc_to_iana) : KeyMatches(timezone, utc_to_iana[i][1])},
           LAMBDA hits :
    IF hits = {} THEN "UTC"
    ELSE utc_to_iana[CHOOSE i \in hits : \A j \in hits : i <= j][2])

\* Lines 72-76: the zone of the first table item that matches, else the label
LookupZone(timezone) ==
    Assign({i \in 1..Len(utc_to_iana) : KeyMatches(timezone, utc_to_iana[i][1])},
           LAMBDA hits :
    IF hits = {} THEN timezone
    ELSE utc_to_iana[CHOOSE i \in hits : \A j \in hits : i <= j][2])

\* Line 34: the rows whose name the pattern is found in; ok is FALSE when
\* the pattern does not compile
str_contains(rows, pat) ==
    Assign(re_compile(pat), LAMBDA re :
    IF ~re.ok THEN [ok |-> FALSE, rows |-> <<>>]
    ELSE [ok |-> TRUE, rows |-> SelectSeq(rows, LAMBDA r : re_search(re.atoms, r.name))])

\* Lines 35-36
NotFound(country_name) ==
    Raise("ValueError", "Country '" \o country_name \o "' not found in the dataset.")

get_timezone(data, country_name) ==
    IF "name" \notin data.columns THEN Raise("KeyError", "name")
    ELSE Assign(str_contains(data.rows, country_name), LAMBDA country_data :
         IF ~country_data.ok THEN Raise("re.error", country_name)
         ELSE IF country_data.rows = <<>> THEN NotFound(country_name)
         ELSE Assign(country_data.rows[1].timezones, LAMBDA timezones :
              IF timezones = <<>> THEN Raise("IndexError", "list index out of range")
              ELSE Assign(timezones[1], LAMBDA timezone : Return(LookupZone(timezone)))))

-----------------------------------------------------------------------------
(* pytz: the zones of the table, their offsets in minutes and their        *)
(* daylight-saving rule.  "US" zones change at 02:00 local time, "EU"      *)
(* zones at 01:00 UTC; "South" zones have no change on a date of DateSeq.  *)

Zone(std, dst, rule) == [std |-> std, dst |-> dst, rule |-> rule]

Fixed(off) == Zone(off, off, "none")

ZoneInfo(zone) ==
    CASE zone = "UTC" -> Fixed(0)
      [] zone = "Europe/Paris" -> Zone(60, 120, "EU")
      [] zone = "Europe/Kiev" -> Zone(120, 180, "EU")
      [] zone = "Europe/Moscow" -> Fixed(180)
      [] zone = "Asia/Dubai" -> Fixed(240)
      [] zone = "Asia/Karachi" -> Fixed(300)
      [] zone = "Asia/Kolkata" -> Fixed(330)
      [] zone = "Asia/Dhaka" -> Fixed(360)
      [] zone = "Asia/Bangkok" -> Fixed(420)
      [] zone = "Asia/Shanghai" -> Fixed(480)
      [] zone = "Asia/Tokyo" -> Fixed(540)
      [] zone = "Australia/Darwin" -> Fixed(570)
      [] zone = "Australia/Sydney" -> Zone(600, 660, "South")
      [] zone = "Pacific/Noumea" -> Fixed(660)
      [] zone = "Pacific/Auckland" -> Zone(720, 780, "South")
      [] zone = "Atlantic/Azores" -> Zone(-60, 0, "EU")
      [] zone = "America/Noronha" -> Fixed(-120)
      [] zone = "America/Sao_Paulo" -> Fixed(-180)
      [] zone = "America/New_York" -> Zone(-300, -240, "US")
      [] zone = "America/Chicago" -> Zone(-360, -300, "US")
      [] zone = "America/Denver" -> Zone(-420, -360, "US")
      [] zone = "America/Phoenix" -> Fixed(-420)
      [] zone = "America/Los_Angeles" -> Zone(-480, -420, "US")
      [] zone = "America/Anchorage" -> Zone(-540, -480, "US")
      [] zone = "Pacific/Honolulu" -> Fixed(-600)
      [] zone = "Pacific/Midway" -> Fixed(-660)
      [] zone = "Pacific/Wake" -> Fixed(720)

KnownZones == {utc_to_iana[i][2] : i \in 1..Len(utc_to_iana)}

\* pytz.timezone(zone), lines 82-83; UnknownTimeZoneError is a KeyError
pytz_timezone(zone) ==
    IF zone \in KnownZones THEN Return(zone)
    ELSE Raise("UnknownTimeZoneError", zone)

\* The reference dates datetime.now() is drawn from
DateSeq == <<"2026-01-15", "2026-03-08", "2026-11-01", "2026-03-29", "2026-07-15">>

\* What a rule does on a date: "std" or "dst" all day, "gap" (clocks go
\* forward one hour) or "fold" (clocks go back one hour)
RuleOn(rule, date) ==
    CASE rule = "none" -> "std"
      [] rule = "US" ->
            CASE date = "2026-01-15" -> "std" [] date = "2026-03-08" -> "gap"
              [] date = "2026-11-01" -> "fold" [] OTHER -> "dst"
      [] rule = "EU" ->
            CASE date = "2026-03-29" -> "gap" [] date = "2026-07-15" -> "dst"
              [] OTHER -> "std"
      [] rule = "South" ->
            IF date = "2026-07-15" THEN "std" ELSE "dst"

\* The zone's day: the offsets before and after the change, and the wall
\* clock hour (before the change) at which it happens
DayProfile(zone, date) ==
    Assign(ZoneInfo(zone), LAMBDA z :
    Assign(RuleOn(z.rule, date), LAMBDA k :
    Assign(IF k \in {"std", "gap"} THEN z.std ELSE z.dst, LAMBDA before :
        [kind |-> k, before |-> before,
         after |-> IF k \in {"std", "fold"} THEN z.std ELSE z.dst,
         hour |-> IF z.rule = "EU" THEN 1 + (before \div 60) ELSE 2])))

\* The offset tz.localize(naive) gives wall clock hour:00 (is_dst=False):
\* a skipped hour keeps the offset before the gap, a repeated hour is read
\* as standard time
LocalizeOffset(zone, date, hour) ==
    Assign(DayProfile(zone, date), LAMBDA p :
    CASE p.kind = "gap" -> IF hour <= p.hour THEN p.before ELSE p.after
      [] p.kind = "fold" -> IF hour < p.hour - 1 THEN p.before ELSE p.after
      [] OTHER -> p.before)

\* The zone's offset at an instant
UtcOffsetAt(zone, date, utc) ==
    Assign(DayProfile(zone, date), LAMBDA p :
    IF p.kind \in {"gap", "fold"} /\ utc >= p.hour * 60 - p.before
    THEN p.after ELSE p.before)

\* Lines 89-100: tz.localize(now.replace(hour=h, minute=0, ...)).astimezone(UTC)
wake_utc(zone, now, hour) == hour * 60 - LocalizeOffset(zone, now, hour)

\* Mutant: the instant is not converted to the zone
astimezone_utc(utc, zone, now) == utc

\* Lines 108-111: instant.astimezone(tz), as wall clock minutes of the date
astimezone(utc, zone, now) == utc + UtcOffsetAt(zone, now, utc)

Pad2(n) == IF n < 10 THEN "0" \o ToString(n) ELSE ToString(n)

\* strftime('%H:%M')
strftime(minutes) == Pad2((minutes % 1440) \div 60) \o ":" \o Pad2(minutes % 60)

\* Lines 115-117
TimeRange(from, to) == strftime(from) \o " to " \o strftime(to)

-----------------------------------------------------------------------------
(* find_best_talk_time *)

\* Mutant: the first person's wake start is taken for the overlap start
Later_first(a, b) == a

\* max, line 103
Later(a, b) == IF a >= b THEN a ELSE b

\* Mutant: max where line 104 has min
Earlier_max(a, b) == IF a >= b THEN a ELSE b

\* min, line 104
Earlier(a, b) == IF a <= b THEN a ELSE b

\* Mutant: <= where line 106 has <
HasOverlap_le(overlap_start, overlap_end) == overlap_start <= overlap_end

\* Mutant: != where line 106 has <
HasOverlap_ne(overlap_start, overlap_end) == overlap_start # overlap_end

\* Line 106
HasOverlap(overlap_start, overlap_end) == overlap_start < overlap_end

AdvisoryMessage == "There's no common awake time today. Consider adjusting schedules."

\* Lines 107-118
Success(overlap_start, overlap_end, timezone1, timezone2, now) ==
    [status |-> "success",
     country1_time |-> TimeRange(astimezone(overlap_start, timezone1, now),
                                 astimezone(overlap_end, timezone1, now)),
     country2_time |-> TimeRange(astimezone(overlap_start, timezone2, now),
                                 astimezone(overlap_end, timezone2, now)),
     utc_time |-> TimeRange(overlap_start, overlap_end),
     message |-> ""]

\* Lines 120-123
NoOverlap ==
    [status |-> "error", country1_time |-> "", country2_time |-> "",
     utc_time |-> "", message |-> AdvisoryMessage]

\* Lines 86-123, with both zones resolved
ComputeOverlap(timezone1, timezone2, wake_hours1, wake_hours2, now) ==
    Assign(wake_utc(timezone1, now, wake_hours1[1]), LAMBDA wake_start1_utc :
    Assign(wake_utc(timezone1, now, wake_hours1[2]), LAMBDA wake_end1_utc :
    Assign(wake_utc(timezone2, now, wake_hours2[1]), LAMBDA wake_start2_utc :
    Assign(wake_utc(timezone2, now, wake_hours2[2]), LAMBDA wake_end2_utc :
    Assign(Later(wake_start1_utc, wake_start2_utc), LAMBDA overlap_start :
    Assign(Earlier(wake_end1_utc, wake_end2_utc), LAMBDA overlap_end :
    ReturnDict(
        IF HasOverlap(overlap_start, overlap_end)
        THEN Success(overlap_start, overlap_end, timezone1, timezone2, now)
        ELSE NoOverlap,
        [timezone1 |-> timezone1, timezone2 |-> timezone2,
         wake_start1_utc |-> wake_start1_utc, wake_end1_utc |-> wake_end1_utc,
         wake_start2_utc |-> wake_start2_utc, wake_end2_utc |-> wake_end2_utc,
         overlap_start |-> overlap_start, overlap_end |-> overlap_end])))))))

\* Lines 78-123; sleep_hours1 and sleep_hours2 are never read
find_best_talk_time(data, country1, country2, wake_hours1, wake_hours2, now) ==
    Assign(get_timezone(data, country1), LAMBDA zone1 :
    IF zone1.kind = "raise" THEN zone1
    ELSE Assign(pytz_timezone(zone1.value), LAMBDA timezone1 :
    IF timezone1.kind = "raise" THEN timezone1
    ELSE Assign(get_timezone(data, country2), LAMBDA zone2 :
    IF zone2.kind = "raise" THEN zone2
    ELSE Assign(pytz_timezone(zone2.value), LAMBDA timezone2 :
    IF timezone2.kind = "raise" THEN timezone2
    ELSE ComputeOverlap(timezone1.value, timezone2.value,
                        wake_hours1, wake_hours2, now)))))

-----------------------------------------------------------------------------
(* main *)

\* except ValueError (line 176): the classes it catches
CaughtByHandler(exc) == exc = "ValueError"

\* Lines 148-177: what the handler shows, or the exception that leaves it
FindBestTimeHandler(data, country1, country2, wake_hours1, wake_hours2, now) ==
    Assign(find_best_talk_time(data, country1, country2, wake_hours1, wake_hours2, now),
           LAMBDA result :
    IF result.kind = "raise"
    THEN IF CaughtByHandler(result.exc) THEN Return("Error: " \o result.msg) ELSE result
    ELSE IF result.result.status = "success"
         THEN [result EXCEPT !.value = "Found overlapping time!"]
         ELSE [result EXCEPT !.value = result.result.message])

-----------------------------------------------------------------------------
(* Inputs *)

QueryAlphabet == {"f", "F", "r", "R", "d", "D", ".", "\\", "("}

RECURSIVE StringsUpTo(_)
StringsUpTo(n) ==
    IF n = 0 THEN {""}
    ELSE LET shorter == StringsUpTo(n - 1) IN
         shorter \cup {s \o c : s \in shorter, c \in QueryAlphabet}

RowPool == {
    Row("France", <<"UTC+01:00">>),
    Row("India", <<"UTC+05:30 (IST)">>),
    Row("Nepal", <<"UTC+05:45">>),
    Row("Ireland", <<"UTC">>),
    Row("United States", <<"UTC-08:00", "UTC-05:00">>),
    Row("Chad", <<>>) }

RECURSIVE RowSeqs(_)
RowSeqs(n) ==
    IF n = 0 THEN {<<>>}
    ELSE LET shorter == RowSeqs(n - 1) IN
         shorter \cup {Append(s, r) : s \in shorter, r \in RowPool}

ResolveFiles == {Missing} \cup {Table(rows) : rows \in RowSeqs(MaxRows) \ {<<>>}}

\* The dataset of the meeting planner runs
MeetingTable == Table(<<
    Row("India", <<"UTC+05:30">>),
    Row("United States", <<"UTC-08:00", "UTC-05:00">>),
    Row("Japan", <<"UTC+09:00">>),
    Row("Nepal", <<"UTC+05:45">>) >>)

MeetingFiles == {Missing, MeetingTable}

Countries == {MeetingTable.rows[i].name : i \in 1..Len(MeetingTable.rows)}

Queries == StringsUpTo(MaxQueryLen) \cup Countries

Min(a, b) == IF a <= b THEN a ELSE b

\* st.number_input(..., 0, 23, ...): the hours tried, in this order
HourSeq == <<2, 8, 9, 23, 1, 7, 3, 0, 12, 22, 4, 5, 6, 10, 11, 13, 14, 15, 16,
             17, 18, 19, 20, 21>>

Hours == {HourSeq[i] : i \in 1..Min(NumHours, Len(HourSeq))}

Dates == {DateSeq[i] : i \in 1..Min(NumDates, Len(DateSeq))}

-----------------------------------------------------------------------------
(* Actions *)

Idle == call = NoCall /\ ret = NoResult

\* Line 28: countries_data = load_country_data()
LoadCountryData ==
    /\ pc = "start"
    /\ \E r \in {load_country_data(csv_file)} :
           /\ countries_data' = r.data
           /\ load_error' = r.error
    /\ pc' = "ready"
    /\ UNCHANGED <<csv_file, call, ret>>

\* A call of get_timezone(country_name)
GetTimezone ==
    /\ pc = "ready" /\ Idle
    /\ \E country_name \in Queries :
           /\ call' = [NoCall EXCEPT !.fn = "get_timezone", !.country1 = country_name]
           /\ ret' = get_timezone(countries_data, country_name)
    /\ UNCHANGED <<csv_file, pc, countries_data, load_error>>

\* A call of find_best_talk_time; datetime.now() falls on the date now
FindBestTalkTime ==
    /\ pc = "ready" /\ Idle
    /\ \E country1 \in Countries, country2 \in Countries, now \in Dates,
          wake_hour1 \in Hours, sleep_hour1 \in Hours,
          wake_hour2 \in Hours, sleep_hour2 \in Hours :
           /\ call' = [fn |-> "find_best_talk_time",
                       country1 |-> country1, country2 |-> country2,
                       wake_hours1 |-> <<wake_hour1, sleep_hour1>>,
                       wake_hours2 |-> <<wake_hour2, sleep_hour2>>, now |-> now]
           /\ ret' = find_best_talk_time(countries_data, country1, country2,
                                         <<wake_hour1, sleep_hour1>>,
                                         <<wake_hour2, sleep_hour2>>, now)
    /\ UNCHANGED <<csv_file, pc, countries_data, load_error>>

\* A run of main() without a click: line 130 reads the name column
MainRender ==
    /\ pc = "ready" /\ Idle
    /\ call' = [NoCall EXCEPT !.fn = "main"]
    /\ ret' = IF "name" \in countries_data.columns
              THEN Return("Time Zone Meeting Planner")
              ELSE Raise("KeyError", "name")
    /\ UNCHANGED <<csv_file, pc, countries_data, load_error>>

\* A run of main() with "Find Best Time" clicked (lines 126-177): the
\* select boxes offer the names of the dataset
MainFindBestTime ==
    /\ pc = "ready" /\ Idle
    /\ "name" \in countries_data.columns
    /\ \E country_list \in {{countries_data.rows[i].name : i \in 1..Len(countries_data.rows)}} :
       \E country1 \in country_list, country2 \in country_list, now \in Dates,
          wake_hour1 \in Hours, sleep_hour1 \in Hours,
          wake_hour2 \in Hours, sleep_hour2 \in Hours :
           /\ call' = [fn |-> "main.find_best_time",
                       country1 |-> country1, country2 |-> country2,
                       wake_hours1 |-> <<wake_hour1, sleep_hour1>>,
                       wake_hours2 |-> <<wake_hour2, sleep_hour2>>, now |-> now]
           /\ ret' = FindBestTimeHandler(countries_data, country1, country2,
                                         <<wake_hour1, sleep_hour1>>,
                                         <<wake_hour2, sleep_hour2>>, now)
    /\ UNCHANGED <<csv_file, pc, countries_data, load_error>>

\* Streamlit runs the script again for the next interaction; the cached
\* dataset stays
Rerun ==
    /\ pc = "ready" /\ ~Idle
    /\ call' = NoCall
    /\ ret' = NoResult
    /\ UNCHANGED <<csv_file, pc, countries_data, load_error>>

InitWith(files) ==
    /\ csv_file \in files
    /\ pc = "start"
    /\ countries_data = EmptyDataFrame
    /\ load_error = FALSE
    /\ call = NoCall
    /\ ret = NoResult

Init == InitWith(MeetingFiles)

Next ==
    \/ LoadCountryData
    \/ GetTimezone
    \/ FindBestTalkTime
    \/ MainRender
    \/ MainFindBestTime
    \/ Rerun

Spec == Init /\ [][Next]_vars

\* get_timezone over every dataset of at most MaxRows rows
InitResolve == InitWith(ResolveFiles)

NextResolve == LoadCountryData \/ GetTimezone \/ Rerun

SpecResolve == InitResolve /\ [][NextResolve]_vars

-----------------------------------------------------------------------------
(* Properties of find_best_talk_time (specification Spec) *)

Returned(fn) == call.fn = fn /\ ret.kind = "return"

ValidWindow(w) == w[1] < w[2]

\* wall clock hour:00 does not exist in the zone on the date (clocks skip it)
SkippedHour(zone, date, hour) ==
    DayProfile(zone, date).kind = "gap" /\ hour = DayProfile(zone, date).hour

FixedOffsetOn(zone, date) == DayProfile(zone, date).kind \in {"std", "dst"}

\* "HH:00 to HH:00" for a window
WindowText(w) == Pad2(w[1]) \o ":00 to " \o Pad2(w[2]) \o ":00"

\* A range text "HH:MM to HH:MM" whose two times lie in the window, in order
RangeInsideWindow(text, w) ==
    \E a \in {30 * k : k \in 0..47}, b \in {30 * k : k \in 0..47} :
        /\ w[1] * 60 <= a /\ a < b /\ b <= w[2] * 60
        /\ text = TimeRange(a, b)

\* C1: find_best_talk_time returns Success exactly when the later of the two
\* wake starts is before the earlier of the two wake ends (instants in UTC on
\* the reference date); otherwise, equality included, it returns the
\* NoOverlap dict with the one advisory message, as for identical one-hour
\* windows (8, 9) in zones 14 hours or more apart.
C1_SuccessIffOverlap ==
    Returned("find_best_talk_time") =>
        LET l == ret.locals
            start == IF l.wake_start1_utc >= l.wake_start2_utc
                     THEN l.wake_start1_utc ELSE l.wake_start2_utc
            end == IF l.wake_end1_utc <= l.wake_end2_utc
                   THEN l.wake_end1_utc ELSE l.wake_end2_utc
        IN  /\ l.overlap_start = start
            /\ l.overlap_end = end
            /\ ret.result.status \in {"success", "error"}
            /\ (ret.result.status = "success") <=> (start < end)
            /\ ret.result.status = "error" =>
                   /\ ret.result.message =
                        "There's no common awake time today. Consider adjusting schedules."
                   /\ ret.result.country1_time = "" /\ ret.result.utc_time = ""
            \* the example: identical windows (8, 9), zones 14 hours or more apart
            /\ ( /\ call.wake_hours1 = <<8, 9>> /\ call.wake_hours2 = <<8, 9>>
                 /\ \/ l.wake_start1_utc - l.wake_start2_utc >= 14 * 60
                    \/ l.wake_start2_utc - l.wake_start1_utc >= 14 * 60 ) =>
                   ret.result.status = "error"

\* C1 witness: the two UTC intervals only touch, and the result is NoOverlap
C1_Witness ==
    /\ Returned("find_best_talk_time")
    /\ ret.locals.overlap_start = ret.locals.overlap_end
    /\ ValidWindow(call.wake_hours1) /\ ValidWindow(call.wake_hours2)
    /\ ret.result.status = "error"

\* C6: swapping the two people gives the same outcome kind and UTC range, with
\* the two local ranges exchanged.
C6_Symmetric ==
    call.fn = "find_best_talk_time" =>
        LET swapped == find_best_talk_time(countries_data, call.country2, call.country1,
                                           call.wake_hours2, call.wake_hours1, call.now)
        IN  /\ swapped.kind = ret.kind
            /\ swapped.result.status = ret.result.status
            /\ swapped.result.utc_time = ret.result.utc_time
            /\ swapped.result.country1_time = ret.result.country2_time
            /\ swapped.result.country2_time = ret.result.country1_time

\* C6 witness: a Success between two zones with different windows
C6_Witness ==
    /\ Returned("find_best_talk_time")
    /\ ret.result.status = "success"
    /\ ret.locals.timezone1 # ret.locals.timezone2
    /\ call.wake_hours1 # call.wake_hours2
    /\ ret.result.country1_time # ret.result.country2_time

SameZoneSameWindow ==
    /\ Returned("find_best_talk_time")
    /\ ret.locals.timezone1 = ret.locals.timezone2
    /\ call.wake_hours1 = call.wake_hours2
    /\ ValidWindow(call.wake_hours1)

\* C7 as stated: identical valid windows in the same zone give Success and both
\* local ranges read wake_hour:00 to sleep_hour:00.
C7_Original ==
    SameZoneSameWindow =>
        /\ ret.result.status = "success"
        /\ ret.result.country1_time = WindowText(call.wake_hours1)
        /\ ret.result.country2_time = WindowText(call.wake_hours1)

\* C7 amended: the same, provided neither wake_hour:00 nor sleep_hour:00 is a
\* local time the zone's clocks skip on the reference date.
C7_IdenticalWindows ==
    ( /\ SameZoneSameWindow
      /\ ~SkippedHour(ret.locals.timezone1, call.now, call.wake_hours1[1])
      /\ ~SkippedHour(ret.locals.timezone1, call.now, call.wake_hours1[2]) ) =>
        /\ ret.result.status = "success"
        /\ ret.result.country1_time = WindowText(call.wake_hours1)
        /\ ret.result.country2_time = WindowText(call.wake_hours1)

\* C7 witness: identical windows in a zone with daylight saving, on the day of
\* its change, neither hour skipped
C7_Witness ==
    /\ SameZoneSameWindow
    /\ ret.locals.timezone1 = "America/Los_Angeles"
    /\ call.now = "2026-03-08"
    /\ call.wake_hours1 = <<8, 23>>
    /\ ret.result.country1_time = "08:00 to 23:00"

\* C9: on Success the overlap lies inside both wake intervals as instants, and
\* for a zone whose offset is fixed on the date the person's local range lies
\* within wake_hour:00 to sleep_hour:00.
C9_OverlapInsideWindows ==
    (Returned("find_best_talk_time") /\ ret.result.status = "success") =>
        LET l == ret.locals IN
        /\ l.wake_start1_utc <= l.overlap_start /\ l.overlap_start < l.overlap_end
        /\ l.overlap_end <= l.wake_end1_utc
        /\ l.wake_start2_utc <= l.overlap_start /\ l.overlap_end <= l.wake_end2_utc
        /\ FixedOffsetOn(l.timezone1, call.now) =>
               RangeInsideWindow(ret.result.country1_time, call.wake_hours1)
        /\ FixedOffsetOn(l.timezone2, call.now) =>
               RangeInsideWindow(ret.result.country2_time, call.wake_hours2)

\* C9 witness: a Success whose overlap is strictly shorter than both windows
C9_Witness ==
    /\ Returned("find_best_talk_time")
    /\ ret.result.status = "success"
    /\ ret.locals.wake_start1_utc < ret.locals.overlap_start
    /\ ret.locals.overlap_end < ret.locals.wake_end2_utc
    /\ FixedOffsetOn(ret.locals.timezone1, call.now)
    /\ FixedOffsetOn(ret.locals.timezone2, call.now)

Resolves(country) ==
    /\ get_timezone(countries_data, country).kind = "return"
    /\ pytz_timezone(get_timezone(countries_data, country).value).kind = "return"

\* C10: a window with wake_hour >= sleep_hour, for either person, gives
\* NoOverlap whatever the other window and the zones; the call raises only
\* when a country does not resolve to a zone.
C10_BadWindowNoOverlap ==
    ( /\ call.fn = "find_best_talk_time"
      /\ ~ValidWindow(call.wake_hours1) \/ ~ValidWindow(call.wake_hours2) ) =>
        /\ ret.kind = "return" => ret.result.status = "error"
        /\ (Resolves(call.country1) /\ Resolves(call.country2)) => ret.kind = "return"

\* C10 witness: one window has wake_hour = sleep_hour inside the other person's
\* valid window, and the result is NoOverlap
C10_Witness ==
    /\ Returned("find_best_talk_time")
    /\ call.wake_hours1[1] = call.wake_hours1[2]
    /\ ValidWindow(call.wake_hours2)
    /\ ret.locals.wake_start2_utc < ret.locals.wake_start1_utc
    /\ ret.locals.wake_end1_utc < ret.locals.wake_end2_utc
    /\ ret.result.status = "error"

\* C5 as stated: no exception leaves the "Find Best Time" handler.
C5_Original == call.fn = "main.find_best_time" => ret.kind # "raise"

-----------------------------------------------------------------------------
(* Properties of get_timezone (specification SpecResolve) *)

\* q occurs in name, letter case ignored
IsSubstringCI(q, name) ==
    \E i \in 0..(Len(name) - Len(q)) :
        \A k \in 1..Len(q) : Lower(CharAt(q, k)) = Lower(CharAt(name, i + k))

NotFoundError == ret.kind = "raise" /\ ret.exc = "ValueError"

\* C2 as stated: with a dataset loaded, get_timezone("") and get_timezone of a
\* query that occurs in no record's name fail with NotFoundError.
C2_Original ==
    ( /\ call.fn = "get_timezone" /\ ~load_error
      /\ \/ call.country1 = ""
         \/ \A i \in 1..Len(countries_data.rows) :
                ~IsSubstringCI(call.country1, countries_data.rows[i].name) ) =>
        NotFoundError

\* C3 as stated: after a failed load every get_timezone call fails with
\* NotFoundError.
C3_Original ==
    (call.fn = "get_timezone" /\ load_error) =>
        countries_data = EmptyDataFrame /\ NotFoundError

\* The first offset label of the first record the query selects
FirstLabel == str_contains(countries_data.rows, call.country1).rows[1].timezones[1]

TableKeys == {utc_to_iana[i][1] : i \in 1..Len(utc_to_iana)}

\* C4 as stated: a first label equal to no key of the table is returned
\* unchanged.
C4_Original ==
    (Returned("get_timezone") /\ FirstLabel \notin TableKeys) =>
        ret.value = FirstLabel

\* C4 amended: a first label that starts with no key of the table is returned
\* unchanged.
C4_PassThrough ==
    ( /\ Returned("get_timezone")
      /\ \A key \in TableKeys :
             ~(Len(key) <= Len(FirstLabel) /\ SubSeq(FirstLabel, 1, Len(key)) = key) ) =>
        ret.value = FirstLabel

\* C4 witness: the raw label of an offset the table lacks comes back
C4_Witness ==
    /\ Returned("get_timezone")
    /\ FirstLabel = "UTC+05:45"
    /\ ret.value = "UTC+05:45"

\* The queries that differ from q only in letter case
CaseVariants(q) ==
    {v \in Queries : Len(v) = Len(q) /\
                     \A k \in 1..Len(q) : Lower(CharAt(v, k)) = Lower(CharAt(q, k))}

\* C8 as stated: every variant of the query in another letter case gives the
\* same result, the same zone or NotFoundError.
C8_Original ==
    call.fn = "get_timezone" =>
        \A v \in CaseVariants(call.country1) :
            LET other == get_timezone(countries_data, v) IN
            /\ other.kind = ret.kind
            /\ other.value = ret.value
            /\ other.exc = ret.exc

====
